---- MODULE Spec2Model ----
(***************************************************************************)
(* TheDevsBot (src/src/main.rs): the voice-state handler that grants and   *)
(* revokes access to the video channel, the server-icon delay computation, *)
(* the icon randomizer started by the ready handler with its two icon      *)
(* directories, and the handler of the `alerts` command.                   *)
(*                                                                         *)
(* Option<Id> values are modelled by their niche: serenity ids are         *)
(* non-zero, so 0 stands for None.                                         *)
(***************************************************************************)
EXTENDS Integers, Sequences, FiniteSets, TLC

VARIABLES
    cfg,        \* the Config inserted into ctx.data by main (never written again)
    handlers,   \* running / finished voice_state_update invocations
    overrides,  \* platform: does the member's override on the video channel exist
    delay,      \* the last result of icon_delay
    fs,         \* the file system: the directories of the two icon pools
    acts,       \* the activations: one per Ready event the gateway delivered
    guildIcon,  \* platform: the file last uploaded as the guild icon
    poolCallers,\* the execution contexts that have run file-system pool code
    obs,        \* what the last step of randomize_server_icon was seen to do
    cmd,        \* the running / finished interaction_create invocation
    alertsRole  \* platform: does the member hold the alerts role

(***************************************************************************)
(* Bounds of the model.                                                    *)
(***************************************************************************)
NumHandlers == 1    \* voice_state_update invocations (one event each) that may overlap
NumChannels == 3    \* channel ids 1..NumChannels
NumGuilds == 2      \* guild ids 1..NumGuilds
MaxSmallHours == 5  \* configured delay hours 0..MaxSmallHours, and the two
                    \* values around the overflow of hours * 3600
U64Max == 65535     \* u64::MAX, scaled down to a 16-bit word
NumIcons == 2       \* image files icon 1 .. icon NumIcons
MaxReady == 2       \* Ready events the gateway delivers
MaxCycles == 2      \* wait/apply cycles one randomizer loop is followed for
NumCommands == 2    \* interaction_create invocations (one command each)
NumOverlap == 2     \* consecutive events of one member whose handlers overlap
NumEvents == 3      \* consecutive events of one member handled one at a time

Handlers == 1..NumHandlers
ChannelIds == 1..NumChannels
GuildIds == 1..NumGuilds

(***************************************************************************)
(* Config (struct Config).  The guild is guild 1, the voice channel is     *)
(* channel 1 and the video channel is channel 2.                           *)
(***************************************************************************)
DefaultConfig ==
    [ guild |-> 1, voice |-> 1, video |-> 2,
      server_icons_unused |-> "", server_icons_used |-> "",
      server_icons_delay_min_hours |-> 0, server_icons_delay_max_hours |-> 0,
      alerts |-> 0 ]

VoiceConfig == DefaultConfig

(***************************************************************************)
(* The inputs of voice_state_update: `old: Option<VoiceState>` and the     *)
(* fields of `new: VoiceState` the handler reads.                          *)
(***************************************************************************)
OldStates ==
    {[present |-> FALSE, channel_id |-> 0]}
        \cup [present : {TRUE}, channel_id : {0} \cup ChannelIds]

SelfStream == {"None", "Some(false)", "Some(true)"}

VoiceEvents ==
    [ member : BOOLEAN,                \* new.member is Some
      guild_id : {0} \cup GuildIds,    \* new.guild_id
      channel_id : {0} \cup ChannelIds,\* new.channel_id
      self_stream : SelfStream,        \* new.self_stream
      old : OldStates ]

NoEvent ==
    [ member |-> FALSE, guild_id |-> 0, channel_id |-> 0,
      self_stream |-> "None", old |-> [present |-> FALSE, channel_id |-> 0] ]

IdleHandler == [pc |-> "idle", ev |-> NoEvent, trace |-> <<>>]

(* Accepted without the comparison against config.guild. *)
Accepted_NoGuildCheck(ev) ==
    /\ ev.member
    /\ ev.guild_id # 0

(***************************************************************************)
(* voice_state_update, lines 284-299: the let-else early returns.          *)
(***************************************************************************)
Accepted(ev) ==
    /\ ev.member
    /\ ev.guild_id # 0
    /\ ev.guild_id = cfg.guild

(* WantsGrant that skips a member who was already in the voice channel. *)
WantsGrant_OnlyOnEntry(ev) ==
    /\ ev.channel_id # 0
    /\ ev.channel_id = cfg.voice
    /\ ~(ev.old.present /\ ev.old.channel_id = cfg.voice)

(* lines 301-316: `if let Some(new_channel_id)` and `== config.voice`. *)
WantsGrant(ev) ==
    /\ ev.channel_id # 0
    /\ ev.channel_id = cfg.voice

(* WantsMove that tests only that the stream flag is present. *)
WantsMove_AnyStreamFlag(ev) ==
    /\ ev.channel_id # 0
    /\ ev.self_stream # "None"
    /\ ev.channel_id = cfg.voice

(* lines 319-326: `if let Some(stream)`, `stream && new_channel_id == voice`. *)
WantsMove(ev) ==
    /\ ev.channel_id # 0
    /\ ev.self_stream = "Some(true)"
    /\ ev.channel_id = cfg.voice

(* lines 338-339: `channels.contains(..)`. *)
TrackedChannels == {cfg.voice, cfg.video}

(* WantsRevoke that revokes only on leaving the video channel. *)
WantsRevoke_OnlyFromVideo(ev) ==
    /\ ev.old.present
    /\ ev.old.channel_id # 0
    /\ ev.old.channel_id = cfg.video
    /\ ~(ev.channel_id # 0 /\ ev.channel_id \in {cfg.voice, cfg.video})

(* WantsRevoke without the early return for a new channel that is tracked. *)
WantsRevoke_NoTransferCheck(ev) ==
    /\ ev.old.present
    /\ ev.old.channel_id # 0
    /\ ev.old.channel_id \in {cfg.voice, cfg.video}

(* lines 329-355: old present, old channel present and tracked, and the new
   channel is not one of the tracked channels. *)
WantsRevoke(ev) ==
    /\ ev.old.present
    /\ ev.old.channel_id # 0
    /\ ev.old.channel_id \in TrackedChannels
    /\ ~(ev.channel_id # 0 /\ ev.channel_id \in TrackedChannels)

(***************************************************************************)
(* The handler's next platform call at or after a program point; the       *)
(* points follow the order of the code: grant (313), move (321),           *)
(* revoke (350).                                                           *)
(***************************************************************************)
PcFrom(ev, point) ==
    IF point = "grant" /\ WantsGrant(ev) THEN "grant"
    ELSE IF point \in {"grant", "move"} /\ WantsMove(ev) THEN "move"
    ELSE IF WantsRevoke(ev) THEN "revoke"
    ELSE "done"

Call(op, ok) == [op |-> op, ok |-> ok]

(* The variables the voice-state handler never touches. *)
schedVars ==
    <<delay, fs, acts, guildIcon, poolCallers, obs, cmd, alertsRole>>

(* The gateway dispatches a voice-state event to a fresh handler task; a
   finished handler keeps its event and its calls for inspection. *)
Deliver(h, ev) ==
    /\ handlers[h].pc = "idle"
    /\ handlers' = [handlers EXCEPT ![h] =
          [ pc |-> IF Accepted(ev) THEN PcFrom(ev, "grant") ELSE "done",
            ev |-> ev, trace |-> <<>> ]]
    /\ UNCHANGED <<cfg, overrides, schedVars>>

(* line 313: config.video.create_permission(..).await; an error is printed. *)
Grant(h, ok) ==
    /\ handlers[h].pc = "grant"
    /\ handlers' = [handlers EXCEPT ![h] =
          [ @ EXCEPT !.pc = PcFrom(handlers[h].ev, "move"),
                     !.trace = Append(@, Call("grant", ok)) ]]
    /\ overrides' = IF ok THEN TRUE ELSE overrides
    /\ UNCHANGED <<cfg, schedVars>>

(* line 321: guild_id.move_member(.., config.video).await; an error is printed. *)
Move(h, ok) ==
    /\ handlers[h].pc = "move"
    /\ handlers' = [handlers EXCEPT ![h] =
          [ @ EXCEPT !.pc = PcFrom(handlers[h].ev, "revoke"),
                     !.trace = Append(@, Call("move", ok)) ]]
    /\ UNCHANGED <<cfg, overrides, schedVars>>

(* line 350: config.video.delete_permission(..).await; an error is printed. *)
Revoke(h, ok) ==
    /\ handlers[h].pc = "revoke"
    /\ handlers' = [handlers EXCEPT ![h] =
          [ @ EXCEPT !.pc = "done",
                     !.trace = Append(@, Call("revoke", ok)) ]]
    /\ overrides' = IF ok THEN FALSE ELSE overrides
    /\ UNCHANGED <<cfg, schedVars>>

vars ==
    << cfg, handlers, overrides, delay, fs, acts, guildIcon, poolCallers,
       obs, cmd, alertsRole >>

(***************************************************************************)
(* icon_delay, lines 170-198.  Result<Option<Duration>> is a record:       *)
(* Ok(None), Ok(Some(secs)) or Err.                                        *)
(***************************************************************************)
SecsPerHour == 3600

DelayNone == [kind |-> "None", secs |-> 0]
DelaySome(secs) == [kind |-> "Some", secs |-> secs]
DelayErr(why) == [kind |-> why, secs |-> 0]
DelayUnset == [kind |-> "Unset", secs |-> 0]

(* DrawHours that draws from 0..=max_hours. *)
DrawHours_FromZero(min_hours, max_hours) ==
    IF min_hours = max_hours THEN {min_hours} ELSE 0..max_hours

(* lines 183-188: the fixed value, or rng.random_range(min..=max). *)
DrawHours(min_hours, max_hours) ==
    IF min_hours = max_hours THEN {min_hours} ELSE min_hours..max_hours

(* lines 190-197: 0 hours is None; checked_mul(3_600) fails on overflow. *)
HoursToDelay(hours) ==
    IF hours = 0 THEN DelayNone
    ELSE IF hours * SecsPerHour > U64Max THEN DelayErr("ErrTooLarge")
    ELSE DelaySome(hours * SecsPerHour)

(* icon_delay that compares the bounds before it tests max_hours == 0. *)
icon_delay_BoundsFirst(min_hours, max_hours) ==
    IF min_hours > max_hours THEN {DelayErr("ErrMinGreaterThanMax")}
    ELSE IF max_hours = 0 THEN {DelayNone}
    ELSE {HoursToDelay(hours) : hours \in DrawHours(min_hours, max_hours)}

(* The set of results icon_delay can return for its arguments. *)
icon_delay(min_hours, max_hours) ==
    IF max_hours = 0 THEN {DelayNone}
    ELSE IF min_hours > max_hours THEN {DelayErr("ErrMinGreaterThanMax")}
    ELSE {HoursToDelay(hours) : hours \in DrawHours(min_hours, max_hours)}

(* next_icon_delay, lines 200-210: icon_delay on the configured bounds. *)
next_icon_delay ==
    icon_delay(cfg.server_icons_delay_min_hours,
               cfg.server_icons_delay_max_hours)

(***************************************************************************)
(* The file system.  A file name is a stem and an extension; the paths are *)
(* the two configured pool directories and "" (the working directory).     *)
(***************************************************************************)
IconFile(i) == [stem |-> i, ext |-> IF i % 2 = 1 THEN "png" ELSE "JPG"]

IconFiles == {IconFile(i) : i \in 1..NumIcons}

NotesFile == [stem |-> 0, ext |-> "txt"]

NoFile == [stem |-> 0, ext |-> ""]

Paths == {"", "unused", "used"}

MissingDir == [kind |-> "missing", files |-> {}]

(* str::to_ascii_lowercase on the extensions that occur. *)
to_ascii_lowercase(ext) ==
    CASE ext = "JPG" -> "jpg"
      [] ext = "PNG" -> "png"
      [] OTHER -> ext

(* is_supported_icon, lines 74-83. *)
is_supported_icon(file) ==
    /\ file.ext # ""
    /\ to_ascii_lowercase(file.ext) \in {"png", "jpg", "jpeg", "gif", "webp"}

(* The system call of load_icon_paths that fails, if any, and how. *)
ListFaults ==
    { "none", "metadata_denied", "metadata_error", "create_denied",
      "create_error", "read_dir_denied", "read_dir_error", "entry_denied",
      "entry_error" }

(* An error is an io::Error of kind PermissionDenied ("IoDenied"), another
   io::Error ("IoOther") or a formatted message ("Msg"). *)
Listed(res, paths, f) == [res |-> res, paths |-> paths, fs |-> f]

(* load_icon_paths, lines 85-121. *)
load_icon_paths(f, directory, fault) ==
    IF directory = "" THEN Listed("Ok", {}, f)
    ELSE IF fault \in {"metadata_denied", "metadata_error"}
        THEN Listed("Msg", {}, f)
    ELSE IF f[directory].kind = "missing" THEN
        IF fault = "create_denied" THEN Listed("IoDenied", {}, f)
        ELSE IF fault = "create_error" THEN Listed("IoOther", {}, f)
        ELSE Listed("Ok", {},
                    [f EXCEPT ![directory] = [kind |-> "dir", files |-> {}]])
    ELSE IF f[directory].kind # "dir" THEN Listed("Msg", {}, f)
    ELSE IF fault \in {"read_dir_denied", "read_dir_error"}
        THEN Listed("Msg", {}, f)
    ELSE IF fault = "entry_denied" THEN Listed("IoDenied", {}, f)
    ELSE IF fault = "entry_error" THEN Listed("IoOther", {}, f)
    ELSE Listed("Ok", {n \in f[directory].files : is_supported_icon(n)}, f)

(* The system call of move_icon_file that fails, if any, and how:
   "rename" is a failed rename with a successful copy and delete. *)
MoveFaults ==
    { "none", "mkdir_denied", "mkdir_error", "remove_dest_denied",
      "remove_dest_error", "rename", "rename_copy", "rename_remove_source" }

Moved(res, f) == [res |-> res, fs |-> f]

(* move_icon_file that copies the file and leaves the source in place. *)
move_icon_file_CopyOnly(f, file, source_dir, target_dir, fault) ==
    Moved("Ok", [f EXCEPT ![target_dir] =
                    [kind |-> "dir", files |-> @.files \cup {file}]])

(* move_icon_file, lines 130-153. *)
move_icon_file(f, file, source_dir, target_dir, fault) ==
    LET made == [f EXCEPT ![target_dir].kind = "dir"]
        exists == file \in made[target_dir].files
        cleared == [made EXCEPT ![target_dir].files = @ \ {file}]
        has_source == file \in cleared[source_dir].files
        copied == [cleared EXCEPT ![target_dir].files = @ \cup {file}]
        renamed == [cleared EXCEPT ![source_dir].files = @ \ {file},
                                   ![target_dir].files = @ \cup {file}]
    IN  IF fault = "mkdir_denied" THEN Moved("IoDenied", f)
        ELSE IF fault = "mkdir_error" \/ f[target_dir].kind = "file"
            THEN Moved("IoOther", f)
        ELSE IF exists /\ fault = "remove_dest_denied"
            THEN Moved("IoDenied", made)
        ELSE IF exists /\ fault = "remove_dest_error"
            THEN Moved("IoOther", made)
        ELSE IF ~has_source \/ fault = "rename_copy" THEN Moved("Msg", cleared)
        ELSE IF fault = "rename_remove_source" THEN Moved("Msg", copied)
        ELSE Moved("Ok", renamed)

(* The loop of recycle_used_icons over files that all move without a fault. *)
RECURSIVE MoveAll(_, _, _, _)
MoveAll(f, files, source_dir, target_dir) ==
    IF files = {} THEN f
    ELSE LET file == CHOOSE n \in files : TRUE
         IN  MoveAll(move_icon_file(f, file, source_dir, target_dir, "none").fs,
                     files \ {file}, source_dir, target_dir)

(* A result of recycle_used_icons and the system call that failed in it
   ("none" when none did, "rename" when only the rename did). *)
Recycling(rec, fault) == [rec |-> rec, fault |-> fault]

(* The fault that took effect in a move that ended as `m`. *)
MoveFired(m, f, file, source_dir, target_dir, fault) ==
    IF m # move_icon_file(f, file, source_dir, target_dir, "none") THEN fault
    ELSE IF fault = "rename" /\ m.res = "Ok" THEN fault
    ELSE "none"

(* recycle_used_icons that returns the listed paths without moving them. *)
recycle_used_icons_ListOnly(f, unused_dir, used_dir, list_faults, move_faults) ==
    LET l == load_icon_paths(f, used_dir, "none")
    IN  {Recycling(Listed(l.res, l.paths, l.fs), "none")}

(* recycle_used_icons, lines 155-168: the results for every fault of the
   listing that takes effect and, for every fault of a move, every file
   `bad` it can hit and every set `before` of files moved before it. *)
recycle_used_icons(f, unused_dir, used_dir, list_faults, move_faults) ==
    LET l == load_icon_paths(f, used_dir, "none")
    IN  { LET e == load_icon_paths(f, used_dir, fault)
          IN  Recycling(Listed(e.res, {}, e.fs), fault)
          : fault \in { x \in list_faults :
                          /\ load_icon_paths(f, used_dir, x) # l
                          /\ load_icon_paths(f, used_dir, x).res # "Ok" } }
        \cup
        IF l.res # "Ok" THEN {Recycling(Listed(l.res, {}, l.fs), "none")}
        ELSE IF l.paths = {} THEN {Recycling(Listed("Ok", {}, l.fs), "none")}
        ELSE UNION { UNION { {
            LET first == MoveAll(l.fs, before, used_dir, unused_dir)
                m == move_icon_file(first, bad, used_dir, unused_dir, fault)
                fired == MoveFired(m, first, bad, used_dir, unused_dir, fault)
            IN  IF m.res # "Ok" THEN Recycling(Listed(m.res, {}, m.fs), fired)
                ELSE Recycling(
                        Listed("Ok", l.paths,
                               MoveAll(m.fs, l.paths \ (before \cup {bad}),
                                       used_dir, unused_dir)),
                        fired)
            : before \in SUBSET (l.paths \ {bad}) }
            : bad \in l.paths }
            : fault \in move_faults }

(* The ways the first part of randomize_server_icon can end: it returns
   `res` (selected = NoFile) or goes on to upload `selected`; `pool` tells
   whether it ran file-system pool code. *)
Selection(res, selected, f, pool) ==
    [res |-> res, selected |-> selected, fs |-> f, pool |-> pool]

(* lines 480-497 and 506-524: a listing or recycling result the function
   returns on. *)
AfterFailure(l) ==
    Selection(IF l.res = "IoDenied" THEN "Ok" ELSE "Err", NoFile, l.fs, TRUE)

(* lines 526-540: nothing to select, or any of the paths. *)
Choose(l) ==
    IF l.paths = {} THEN {Selection("Ok", NoFile, l.fs, TRUE)}
    ELSE {Selection("Ok", file, l.fs, TRUE) : file \in l.paths}

(* A selection, the fault that took effect in the listing of the unused
   directory, whether recycle_used_icons was called and the fault that took
   effect in it. *)
Traced(sel, list_fault, recycled, recycle_fault) ==
    [ sel |-> sel, listFault |-> list_fault, recycled |-> recycled,
      recycleFault |-> recycle_fault ]

(* randomize_server_icon, lines 463-540, under the faults the file system
   can show. *)
select_icon(f, list_faults, move_faults) ==
    IF cfg.server_icons_unused = ""
    THEN {Traced(Selection("Ok", NoFile, f, FALSE), "none", FALSE, "none")}
    ELSE UNION {
        LET l == load_icon_paths(f, cfg.server_icons_unused, fault)
            fired ==
                IF l = load_icon_paths(f, cfg.server_icons_unused, "none")
                THEN "none" ELSE fault
        IN  IF l.res # "Ok" THEN {Traced(AfterFailure(l), fired, FALSE, "none")}
            ELSE IF l.paths # {}
                THEN {Traced(s, fired, FALSE, "none") : s \in Choose(l)}
            ELSE UNION {
                { Traced(s, fired, TRUE, r.fault) :
                    s \in IF r.rec.res # "Ok" THEN {AfterFailure(r.rec)}
                          ELSE Choose(r.rec) }
                : r \in recycle_used_icons(l.fs, cfg.server_icons_unused,
                                           cfg.server_icons_used,
                                           list_faults, move_faults) }
        : fault \in list_faults }

(***************************************************************************)
(* The observation of the randomizer: the file system at the start, and    *)
(* for the last step of randomize_server_icon the file system and the guild *)
(* icon before it, the faults that took effect in it, the icon it selected, *)
(* whether its platform call succeeded and the result it returned           *)
(* ("pending" while the function goes on); `since` is the set of icons      *)
(* uploaded since recycle_used_icons was last called and `ever` the set of  *)
(* icons uploaded so far.  Nothing is recorded while `on` is FALSE.         *)
(***************************************************************************)
EmptyFs == [p \in Paths |-> MissingDir]

NoObs ==
    [ on |-> FALSE, fs0 |-> EmptyFs, step |-> "none", before |-> EmptyFs,
      icon |-> NoFile, listFault |-> "none", recycled |-> FALSE,
      recycleFault |-> "none", selected |-> NoFile, ok |-> FALSE,
      moveFault |-> "none", res |-> "none", since |-> {}, ever |-> {} ]

Observe(o) == IF obs.on THEN o ELSE obs

(***************************************************************************)
(* Events::ready, lines 216-280, and the task it spawns.  An activation is *)
(* one Ready event: `phase` is "handler" while the ready handler runs,     *)
(* "task" while the spawned loop is alive and "stopped" after its break.   *)
(***************************************************************************)
Activations == 1..MaxReady

IdleActivation ==
    [ phase |-> "idle", pc |-> "none", selected |-> NoFile,
      attempts |-> 0,   \* calls of randomize_server_icon
      delays |-> 0,     \* calls of next_icon_delay
      waits |-> 0,      \* completed sleeps
      last |-> "none",  \* the result of the last randomize_server_icon
      why |-> "" ]      \* why the loop broke

(* No Ready event yet, and nothing on disk or on the platform. *)
NoScheduler ==
    /\ fs = [p \in Paths |-> IF p = "" THEN [kind |-> "dir", files |-> {}]
                                        ELSE MissingDir]
    /\ acts = [a \in Activations |-> IdleActivation]
    /\ guildIcon = NoFile
    /\ poolCallers = {}
    /\ obs = NoObs

(* The variables the randomizer never touches. *)
voiceVars == <<handlers, overrides, delay, cmd, alertsRole>>

(* The ready handler that spawns the loop without a first randomization. *)
ReadyStart_SpawnOnly(act) ==
    [act EXCEPT !.phase = "task", !.pc = "delay"]

(* lines 217-236: presence and command registration (an error is printed),
   then the call of randomize_server_icon. *)
ReadyStart(act) ==
    [act EXCEPT !.phase = "handler", !.pc = "select"]

(* The continuation that leaves the loop when a randomization failed. *)
AfterRotation_BreakOnError(act, res) ==
    IF act.phase = "task" /\ res = "Err"
    THEN [act EXCEPT !.phase = "stopped", !.pc = "none", !.last = res,
                     !.selected = NoFile, !.why = "error"]
    ELSE [act EXCEPT !.phase = "task", !.pc = "delay", !.last = res,
                     !.selected = NoFile]

(* lines 236-241 and 275-277: randomize_server_icon returned `res`; an
   error is printed.  The handler then spawns the loop and returns; the
   loop goes round to its next delay. *)
AfterRotation(act, res) ==
    [act EXCEPT !.phase = "task", !.pc = "delay", !.last = res,
                !.selected = NoFile]

(* The gateway delivers a Ready event. *)
Ready(a) ==
    /\ acts[a].phase = "idle"
    /\ \A b \in Activations : b < a => acts[b].phase # "idle"
    /\ acts' = [acts EXCEPT ![a] = ReadyStart(@)]
    /\ UNCHANGED <<cfg, voiceVars, fs, guildIcon, poolCallers, obs>>

(* The effect of lines 463-540 ending as `sel`: the files recycled, the
   selected icon kept for the upload, or the return to the caller. *)
Selected(a, sel) ==
    /\ fs' = sel.fs
    /\ poolCallers' = IF sel.pool THEN poolCallers \cup {acts[a].phase}
                      ELSE poolCallers
    /\ acts' = [acts EXCEPT ![a] =
          IF sel.selected = NoFile
          THEN AfterRotation([@ EXCEPT !.attempts = @ + 1], sel.res)
          ELSE [@ EXCEPT !.attempts = @ + 1, !.pc = "attach",
                         !.selected = sel.selected]]

(* randomize_server_icon, lines 463-540: up to the selection, under the
   faults the file system can show. *)
RotateSelectUnder(a, list_faults, move_faults) ==
    /\ acts[a].pc = "select"
    /\ \E t \in select_icon(fs, list_faults, move_faults) :
          /\ Selected(a, t.sel)
          /\ obs' = Observe(
                [ obs EXCEPT !.step = "select", !.before = fs,
                             !.icon = guildIcon,
                             !.listFault = t.listFault,
                             !.recycled = t.recycled,
                             !.recycleFault = t.recycleFault,
                             !.selected = t.sel.selected, !.ok = FALSE,
                             !.moveFault = "none",
                             !.res = IF t.sel.selected = NoFile
                                     THEN t.sel.res ELSE "pending",
                             !.since = IF t.recycled THEN {} ELSE @ ])
    /\ UNCHANGED <<cfg, voiceVars, guildIcon>>

RotateSelect(a) == RotateSelectUnder(a, ListFaults, MoveFaults)

(* line 543: CreateAttachment::path(&selected_icon).await reads the file. *)
RotateAttach(a, ok) ==
    /\ acts[a].pc = "attach"
    /\ LET read == ok /\ acts[a].selected \in fs[cfg.server_icons_unused].files
       IN  /\ acts' = [acts EXCEPT ![a] =
                 IF read THEN [@ EXCEPT !.pc = "edit"]
                 ELSE AfterRotation(@, "Err")]
           /\ obs' = Observe(
                 [ obs EXCEPT !.step = "attach", !.before = fs,
                              !.icon = guildIcon, !.ok = read,
                              !.res = IF read THEN "pending" ELSE "Err" ])
    /\ UNCHANGED <<cfg, voiceVars, fs, guildIcon, poolCallers>>

(* RotateEdit that uploads the icon and leaves the file where it is. *)
RotateEdit_NoMove(a, ok, fault) ==
    /\ acts[a].pc = "edit"
    /\ guildIcon' = acts[a].selected
    /\ acts' = [acts EXCEPT ![a] = AfterRotation(@, "Ok")]
    /\ obs' = Observe(
          [ obs EXCEPT !.step = "edit", !.before = fs, !.icon = guildIcon,
                       !.ok = TRUE, !.res = "Ok", !.moveFault = "none",
                       !.since = @ \cup {acts[a].selected},
                       !.ever = @ \cup {acts[a].selected} ])
    /\ UNCHANGED <<cfg, voiceVars, fs, poolCallers>>

(* lines 546-554: guild_id.edit(..).await?, then move_icon_file(..)?. *)
RotateEdit(a, ok, fault) ==
    /\ acts[a].pc = "edit"
    /\ IF ok
       THEN LET m == move_icon_file(fs, acts[a].selected,
                                    cfg.server_icons_unused,
                                    cfg.server_icons_used, fault)
                res == IF m.res = "Ok" THEN "Ok" ELSE "Err"
            IN  /\ guildIcon' = acts[a].selected
                /\ fs' = m.fs
                /\ poolCallers' = poolCallers \cup {acts[a].phase}
                /\ acts' = [acts EXCEPT ![a] = AfterRotation(@, res)]
                /\ obs' = Observe(
                      [ obs EXCEPT
                          !.step = "edit", !.before = fs, !.icon = guildIcon,
                          !.ok = TRUE, !.res = res,
                          !.moveFault =
                              MoveFired(m, fs, acts[a].selected,
                                        cfg.server_icons_unused,
                                        cfg.server_icons_used, fault),
                          !.since = @ \cup {acts[a].selected},
                          !.ever = @ \cup {acts[a].selected} ])
       ELSE /\ acts' = [acts EXCEPT ![a] = AfterRotation(@, "Err")]
            /\ obs' = Observe(
                  [ obs EXCEPT !.step = "edit", !.before = fs,
                               !.icon = guildIcon, !.ok = FALSE,
                               !.moveFault = "none", !.res = "Err" ])
            /\ UNCHANGED <<fs, guildIcon, poolCallers>>
    /\ UNCHANGED <<cfg, voiceVars>>

(* lines 243-252: next_icon_delay; an error or None breaks the loop.  The
   loop is followed for `cycles` waits. *)
LoopDelayUpTo(a, cycles) ==
    /\ acts[a].phase = "task"
    /\ acts[a].pc = "delay"
    /\ acts[a].waits < cycles
    /\ \E d \in next_icon_delay :
          acts' = [acts EXCEPT ![a] =
             IF d.kind = "Some"
             THEN [@ EXCEPT !.delays = @ + 1, !.pc = "sleep"]
             ELSE [@ EXCEPT !.delays = @ + 1, !.pc = "none",
                            !.phase = "stopped",
                            !.why = IF d.kind = "None" THEN "disabled"
                                    ELSE "error"]]
    /\ UNCHANGED <<cfg, voiceVars, fs, guildIcon, poolCallers, obs>>

LoopDelay(a) == LoopDelayUpTo(a, MaxCycles)

(* lines 273-275: sleep(delay).await is over; randomize_server_icon is
   called. *)
LoopSleep(a) ==
    /\ acts[a].pc = "sleep"
    /\ acts' = [acts EXCEPT ![a] = [@ EXCEPT !.waits = @ + 1, !.pc = "select"]]
    /\ UNCHANGED <<cfg, voiceVars, fs, guildIcon, poolCallers, obs>>

(***************************************************************************)
(* interaction_create, handle_command and handle_alerts_command, lines     *)
(* 358-460.  main inserts the Config before the client starts, so the      *)
(* "Configuration not found" branch is not taken.                          *)
(***************************************************************************)
Invocations == 1..NumCommands

Interactions ==
    [ name : {"alerts", "other"},      \* command.data.name
      guild_id : {0} \cup GuildIds ]   \* command.guild_id

NoInteraction == [name |-> "", guild_id |-> 0]

IdleCommand ==
    [ pc |-> "idle", command |-> NoInteraction,
      has_role |-> FALSE,  \* member.roles.contains(&config.alerts)
      message |-> "",      \* the content of the response to create
      trace |-> <<>>,      \* the platform calls issued
      result |-> "none" ]  \* what handle_command returned

NoCommand ==
    /\ cmd = [c \in Invocations |-> IdleCommand]
    /\ alertsRole = FALSE

(* lines 370-379 and 396-424: the message of the branch that answers
   without touching a role, "" when there is none. *)
EarlyMessage(command) ==
    IF command.name # "alerts" THEN "Unknown command"
    ELSE IF command.guild_id = 0
        THEN "This command can only be used in a guild"
    ELSE IF command.guild_id # cfg.guild
        THEN "This command is not available in this guild"
    ELSE IF cfg.alerts = 0
        THEN "Alerts role is not configured. Please contact an administrator."
    ELSE ""

(* lines 429-445: the message for the outcome of the role call. *)
RoleMessage(has_role, ok) ==
    IF has_role
    THEN IF ok THEN "Successfully removed the alerts role!"
         ELSE "Failed to remove the alerts role. Please contact an administrator."
    ELSE IF ok THEN "Successfully added the alerts role!"
         ELSE "Failed to add the alerts role. Please contact an administrator."

(* RoleCall that adds the role whatever the member holds. *)
RoleCall_AlwaysAdd(has_role) == "add_role"

(* lines 429-430 and 438: the role call chosen from has_role. *)
RoleCall(has_role) == IF has_role THEN "remove_role" ELSE "add_role"

Response(content, ok) ==
    [op |-> "create_response", ok |-> ok, content |-> content, ephemeral |-> TRUE]

(* The variables a command handler never touches. *)
otherVars ==
    <<handlers, overrides, delay, fs, acts, guildIcon, poolCallers, obs>>

(* The gateway dispatches a command interaction to a handler task. *)
Interact(c, command) ==
    /\ cmd[c].pc = "idle"
    /\ cmd' = [cmd EXCEPT ![c] =
          [ @ EXCEPT !.command = command,
                     !.message = EarlyMessage(command),
                     !.pc = IF EarlyMessage(command) = "" THEN "member"
                            ELSE "respond" ]]
    /\ UNCHANGED <<cfg, alertsRole, otherVars>>

(* lines 426-427: guild_id.member(..).await?; an error is returned. *)
MemberLookup(c, ok) ==
    /\ cmd[c].pc = "member"
    /\ cmd' = [cmd EXCEPT ![c] =
          IF ok
          THEN [ @ EXCEPT !.pc = "role", !.has_role = alertsRole,
                          !.trace = Append(@, Call("member", TRUE)) ]
          ELSE [ @ EXCEPT !.pc = "done", !.result = "Err",
                          !.trace = Append(@, Call("member", FALSE)) ]]
    /\ UNCHANGED <<cfg, alertsRole, otherVars>>

(* lines 429-445: member.remove_role(..).await or member.add_role(..).await;
   the outcome chooses the message. *)
ChangeRole(c, ok) ==
    /\ cmd[c].pc = "role"
    /\ cmd' = [cmd EXCEPT ![c] =
          [ @ EXCEPT !.pc = "respond",
                     !.message = RoleMessage(cmd[c].has_role, ok),
                     !.trace = Append(@, Call(RoleCall(cmd[c].has_role), ok)) ]]
    /\ alertsRole' = IF ~ok THEN alertsRole
                     ELSE RoleCall(cmd[c].has_role) = "add_role"
    /\ UNCHANGED <<cfg, otherVars>>

(* lines 379, 453 and the early branches: command.create_response(..).await?;
   an error is returned and printed by interaction_create. *)
Respond(c, ok) ==
    /\ cmd[c].pc = "respond"
    /\ cmd' = [cmd EXCEPT ![c] =
          [ @ EXCEPT !.pc = "done",
                     !.result = IF ok THEN "Ok" ELSE "Err",
                     !.trace = Append(@, Response(cmd[c].message, ok)) ]]
    /\ UNCHANGED <<cfg, alertsRole, otherVars>>

(* The delay bounds of the randomizer's configurations: disabled, one hour,
   two hours and a number of hours whose seconds overflow. *)
SchedHours == {0, 1, 2, U64Max \div SecsPerHour + 1}

SchedInit ==
    /\ cfg \in [ guild : {1}, voice : {1}, video : {2},
                 server_icons_unused : {"", "unused"},
                 server_icons_used : {"used"},
                 server_icons_delay_min_hours : SchedHours,
                 server_icons_delay_max_hours : SchedHours,
                 alerts : {0} ]
    /\ handlers = [h \in Handlers |-> IdleHandler]
    /\ overrides = FALSE
    /\ delay = DelayUnset
    /\ NoCommand
    /\ \E unused \in SUBSET (IconFiles \cup {NotesFile}) :
       \E used \in SUBSET (IconFiles \ unused) :
          fs = [p \in Paths |->
                  CASE p = "unused" -> [kind |-> "dir", files |-> unused]
                    [] p = "used" ->
                         IF used = {} THEN MissingDir
                         ELSE [kind |-> "dir", files |-> used]
                    [] OTHER -> [kind |-> "dir", files |-> {}]]
    /\ acts = [a \in Activations |-> IdleActivation]
    /\ guildIcon = NoFile
    /\ poolCallers = {}
    /\ obs = NoObs

(* Every step of the activations in `A`. *)
SchedStep(A) ==
    \/ \E a \in A : Ready(a)
    \/ \E a \in A : RotateSelect(a)
    \/ \E a \in A, ok \in BOOLEAN : RotateAttach(a, ok)
    \/ \E a \in A, ok \in BOOLEAN, fault \in MoveFaults :
          RotateEdit(a, ok, fault)
    \/ \E a \in A : LoopDelay(a)
    \/ \E a \in A : LoopSleep(a)

SchedNext == SchedStep(Activations)

(* The service with every Ready event the gateway may deliver. *)
SpecSched == SchedInit /\ [][SchedNext]_vars

(* The service over a session with a single Ready event. *)
FirstActivation == {a \in Activations : \A b \in Activations : a <= b}

LoopNext == SchedStep(FirstActivation)

SpecLoop == SchedInit /\ [][LoopNext]_vars

(***************************************************************************)
(* The randomizer of a single Ready event under observation: the used      *)
(* directory may be unset or be the unused directory itself, a name may be *)
(* in both directories at the start, and the delay is always one hour.     *)
(***************************************************************************)
PoolConfigs ==
    { c \in [ guild : {1}, voice : {1}, video : {2},
              server_icons_unused : {"", "unused"},
              server_icons_used : {"", "unused", "used"},
              server_icons_delay_min_hours : {1},
              server_icons_delay_max_hours : {1},
              alerts : {0} ] :
        c.server_icons_unused = "" => c.server_icons_used = "used" }

PoolInit ==
    /\ cfg \in PoolConfigs
    /\ handlers = [h \in Handlers |-> IdleHandler]
    /\ overrides = FALSE
    /\ delay = DelayUnset
    /\ NoCommand
    /\ \E unused \in SUBSET (IconFiles \cup {NotesFile}) :
       \E used \in SUBSET IconFiles :
          fs = [p \in Paths |->
                  CASE p = "unused" -> [kind |-> "dir", files |-> unused]
                    [] p = "used" ->
                         IF used = {} THEN MissingDir
                         ELSE [kind |-> "dir", files |-> used]
                    [] OTHER -> [kind |-> "dir", files |-> {}]]
    /\ acts = [a \in Activations |-> IdleActivation]
    /\ guildIcon = NoFile
    /\ poolCallers = {}
    /\ obs = [NoObs EXCEPT !.on = TRUE, !.fs0 = fs, !.before = fs]

SpecPool == PoolInit /\ [][LoopNext]_vars

(***************************************************************************)
(* The command handlers on their own: the alerts role is configured or    *)
(* not, and the member holds it or not.                                    *)
(***************************************************************************)
CommandInit ==
    /\ cfg \in {[DefaultConfig EXCEPT !.alerts = r] : r \in {0, 1}}
    /\ handlers = [h \in Handlers |-> IdleHandler]
    /\ overrides = FALSE
    /\ delay = DelayUnset
    /\ cmd = [c \in Invocations |-> IdleCommand]
    /\ alertsRole \in BOOLEAN
    /\ NoScheduler

CommandNext ==
    \/ \E c \in Invocations, command \in Interactions : Interact(c, command)
    \/ \E c \in Invocations, ok \in BOOLEAN : MemberLookup(c, ok)
    \/ \E c \in Invocations, ok \in BOOLEAN : ChangeRole(c, ok)
    \/ \E c \in Invocations, ok \in BOOLEAN : Respond(c, ok)

SpecCommand == CommandInit /\ [][CommandNext]_vars

(***************************************************************************)
(* The consecutive voice-state events of one member of the configured      *)
(* guild: the member starts outside the voice and video channels without   *)
(* an override, the old state of every later event is the new state of the *)
(* event before it, and every platform call succeeds.  Event h is handled  *)
(* by handler h.                                                           *)
(***************************************************************************)
StartStates == {o \in OldStates : o.channel_id \notin TrackedChannels}

NextEvents(h) ==
    [ member : {TRUE}, guild_id : {cfg.guild},
      channel_id : {0} \cup ChannelIds, self_stream : SelfStream,
      old : IF h = 1 THEN StartStates
            ELSE IF handlers[h - 1].pc = "idle" THEN {}
            ELSE {[ present |-> TRUE,
                    channel_id |-> handlers[h - 1].ev.channel_id ]} ]

(* The gateway dispatches the member's next event while the handlers of
   the earlier ones may still be running. *)
DeliverNext(h) ==
    \E ev \in NextEvents(h) : Deliver(h, ev)

(* The member's next event arrives after the handler of the one before it
   has returned. *)
DeliverInOrder(h) ==
    /\ h > 1 => handlers[h - 1].pc = "done"
    /\ \E ev \in NextEvents(h) : Deliver(h, ev)

MemberInit(n) ==
    /\ cfg = VoiceConfig
    /\ handlers = [h \in 1..n |-> IdleHandler]
    /\ overrides = FALSE
    /\ delay = DelayUnset
    /\ NoCommand
    /\ NoScheduler

OverlapInit == MemberInit(NumOverlap)

OverlapNext ==
    \/ \E h \in 1..NumOverlap : DeliverNext(h)
    \/ \E h \in 1..NumOverlap : Grant(h, TRUE)
    \/ \E h \in 1..NumOverlap : Move(h, TRUE)
    \/ \E h \in 1..NumOverlap : Revoke(h, TRUE)

SpecOverlap == OverlapInit /\ [][OverlapNext]_vars

SequenceInit == MemberInit(NumEvents)

SequenceNext ==
    \/ \E h \in 1..NumEvents : DeliverInOrder(h)
    \/ \E h \in 1..NumEvents : Grant(h, TRUE)
    \/ \E h \in 1..NumEvents : Move(h, TRUE)
    \/ \E h \in 1..NumEvents : Revoke(h, TRUE)

SpecSequence == SequenceInit /\ [][SequenceNext]_vars

(***************************************************************************)
(* The randomizer loop of a single Ready event when no system call and no  *)
(* platform call fails: two different directories, every icon in at most   *)
(* one of them, a delay of one hour.  The runtime keeps running the task.  *)
(***************************************************************************)
CycleConfig ==
    [ DefaultConfig EXCEPT !.server_icons_unused = "unused",
                           !.server_icons_used = "used",
                           !.server_icons_delay_min_hours = 1,
                           !.server_icons_delay_max_hours = 1 ]

CycleInit ==
    /\ cfg = CycleConfig
    /\ handlers = [h \in Handlers |-> IdleHandler]
    /\ overrides = FALSE
    /\ delay = DelayUnset
    /\ NoCommand
    /\ \E unused \in SUBSET IconFiles :
       \E used \in SUBSET (IconFiles \ unused) :
          fs = [p \in Paths |->
                  CASE p = "unused" -> [kind |-> "dir", files |-> unused]
                    [] p = "used" ->
                         IF used = {} THEN MissingDir
                         ELSE [kind |-> "dir", files |-> used]
                    [] OTHER -> [kind |-> "dir", files |-> {}]]
    /\ acts = [a \in Activations |-> IdleActivation]
    /\ guildIcon = NoFile
    /\ poolCallers = {}
    /\ obs = [NoObs EXCEPT !.on = TRUE, !.fs0 = fs, !.before = fs]

(* The loop is followed for enough waits to empty the unused directory
   twice. *)
CycleWaits == NumIcons + NumIcons

CycleNext ==
    \/ \E a \in FirstActivation : Ready(a)
    \/ \E a \in FirstActivation : RotateSelectUnder(a, {"none"}, {"none"})
    \/ \E a \in FirstActivation : RotateAttach(a, TRUE)
    \/ \E a \in FirstActivation : RotateEdit(a, TRUE, "none")
    \/ \E a \in FirstActivation : LoopDelayUpTo(a, CycleWaits)
    \/ \E a \in FirstActivation : LoopSleep(a)

SpecCycle == CycleInit /\ [][CycleNext]_vars /\ WF_vars(CycleNext)

HourValues ==
    (0..MaxSmallHours) \cup {U64Max \div SecsPerHour, U64Max \div SecsPerHour + 1}

VoiceInit ==
    /\ cfg = VoiceConfig
    /\ handlers = [h \in Handlers |-> IdleHandler]
    /\ overrides = FALSE
    /\ delay = DelayUnset
    /\ NoCommand
    /\ NoScheduler

VoiceNext ==
    \/ \E h \in Handlers, ev \in VoiceEvents : Deliver(h, ev)
    \/ \E h \in Handlers, ok \in BOOLEAN : Grant(h, ok)
    \/ \E h \in Handlers, ok \in BOOLEAN : Move(h, ok)
    \/ \E h \in Handlers, ok \in BOOLEAN : Revoke(h, ok)

SpecVoice == VoiceInit /\ [][VoiceNext]_vars

(***************************************************************************)
(* icon_delay on its own: the configured bounds are drawn at the start and *)
(* the function is applied any number of times.                            *)
(***************************************************************************)
DelayInit ==
    /\ cfg \in [ guild : {1}, voice : {1}, video : {2},
                  server_icons_unused : {""}, server_icons_used : {""},
                  server_icons_delay_min_hours : HourValues,
                  server_icons_delay_max_hours : HourValues,
                  alerts : {0} ]
    /\ handlers = [h \in Handlers |-> IdleHandler]
    /\ overrides = FALSE
    /\ delay = DelayUnset
    /\ NoCommand
    /\ NoScheduler

ComputeDelay ==
    /\ delay' \in next_icon_delay
    /\ UNCHANGED << cfg, handlers, overrides, fs, acts, guildIcon,
                    poolCallers, obs, cmd, alertsRole >>

SpecDelay == DelayInit /\ [][ComputeDelay]_vars

(***************************************************************************)
(* Vocabulary of the access state machine: the location of a channel id    *)
(* and the number of calls of one kind a handler has issued.               *)
(***************************************************************************)
Location(c) ==
    IF c = 0 THEN "none"
    ELSE IF c = cfg.voice THEN "companion"
    ELSE IF c = cfg.video THEN "restricted"
    ELSE "other"

PrevLocation(ev) == IF ev.old.present THEN Location(ev.old.channel_id) ELSE "none"

NewLocation(ev) == Location(ev.channel_id)

Tracked == {"companion", "restricted"}

Count(trace, op) == Cardinality({i \in DOMAIN trace : trace[i].op = op})

Started == {h \in Handlers : handlers[h].pc # "idle"}

ForConfiguredGuild(ev) == ev.member /\ ev.guild_id = cfg.guild

(* The number of calls `op` a started handler has issued is at most `n`,
   and exactly `n` once the handler has returned. *)
Issues(h, op, n) ==
    /\ Count(handlers[h].trace, op) <= n
    /\ handlers[h].pc = "done" => Count(handlers[h].trace, op) = n

(* C1: an event of the configured guild with a member issues exactly one
   revoke when the previous location is the companion or restricted channel
   and the new location is neither, and no revoke otherwise; the event
   (Outside -> Companion) issues one grant and no revoke, the event
   (Companion -> Restricted) issues no call, so that the two together issue
   one grant and no revoke. *)
C1_RevokeExactlyOnLeave ==
    /\ \A h \in Started :
          ForConfiguredGuild(handlers[h].ev) =>
              LET ev == handlers[h].ev
                  trace == handlers[h].trace
              IN  /\ Issues(h, "revoke",
                            IF /\ PrevLocation(ev) \in Tracked
                               /\ NewLocation(ev) \notin Tracked
                            THEN 1 ELSE 0)
                  /\ ( /\ handlers[h].pc = "done"
                       /\ PrevLocation(ev) \notin Tracked
                       /\ NewLocation(ev) = "companion" )
                     => /\ Count(trace, "grant") = 1
                        /\ Count(trace, "revoke") = 0
                  /\ ( /\ handlers[h].pc = "done"
                       /\ PrevLocation(ev) = "companion"
                       /\ NewLocation(ev) = "restricted" )
                     => trace = <<>>
    /\ \A h1, h2 \in Started :
          ( /\ h1 # h2
            /\ handlers[h1].pc = "done" /\ handlers[h2].pc = "done"
            /\ ForConfiguredGuild(handlers[h1].ev)
            /\ ForConfiguredGuild(handlers[h2].ev)
            /\ PrevLocation(handlers[h1].ev) \notin Tracked
            /\ NewLocation(handlers[h1].ev) = "companion"
            /\ PrevLocation(handlers[h2].ev) = "companion"
            /\ NewLocation(handlers[h2].ev) = "restricted" )
          => /\ Count(handlers[h1].trace \o handlers[h2].trace, "grant") = 1
             /\ Count(handlers[h1].trace \o handlers[h2].trace, "revoke") = 0

(* A leave from the restricted channel to no channel has returned after its
   single revoke. *)
C1_Witness ==
    \E h \in Started :
        /\ handlers[h].pc = "done"
        /\ ForConfiguredGuild(handlers[h].ev)
        /\ PrevLocation(handlers[h].ev) = "restricted"
        /\ NewLocation(handlers[h].ev) = "none"
        /\ Count(handlers[h].trace, "revoke") = 1
        /\ Len(handlers[h].trace) = 1

(* C2: an event of the configured guild with a member issues exactly one
   grant when its new location is the companion channel, whatever the
   previous location, and no grant otherwise. *)
C2_GrantExactlyOnCompanion ==
    \A h \in Started :
        ForConfiguredGuild(handlers[h].ev) =>
            Issues(h, "grant",
                   IF NewLocation(handlers[h].ev) = "companion" THEN 1 ELSE 0)

(* An event from the companion channel to itself has issued its grant. *)
C2_Witness ==
    \E h \in Started :
        /\ handlers[h].pc = "done"
        /\ ForConfiguredGuild(handlers[h].ev)
        /\ PrevLocation(handlers[h].ev) = "companion"
        /\ NewLocation(handlers[h].ev) = "companion"
        /\ Count(handlers[h].trace, "grant") = 1

(* C3: an event without a member, without a guild id or of another guild
   returns at once having issued no platform call. *)
C3_DiscardedEventNoCalls ==
    \A h \in Started :
        ( \/ ~handlers[h].ev.member
          \/ handlers[h].ev.guild_id = 0
          \/ handlers[h].ev.guild_id # cfg.guild )
        => /\ handlers[h].trace = <<>>
           /\ handlers[h].pc = "done"

(* A streaming move from the video to the voice channel in another guild has
   been discarded. *)
C3_Witness ==
    \E h \in Started :
        /\ handlers[h].ev.member
        /\ handlers[h].ev.guild_id \notin {0, cfg.guild}
        /\ handlers[h].ev.old = [present |-> TRUE, channel_id |-> cfg.video]
        /\ handlers[h].ev.channel_id = cfg.voice
        /\ handlers[h].ev.self_stream = "Some(true)"
        /\ handlers[h].pc = "done"
        /\ handlers[h].trace = <<>>

(* C4: a move is issued exactly for events whose new location is the
   companion channel with the streaming flag true; it is the second call,
   after the grant, whatever the grant returned, and after it the handler
   returns with these two calls only. *)
C4_MoveAfterGrantWhenStreaming ==
    \A h \in Started :
        ForConfiguredGuild(handlers[h].ev) =>
            LET ev == handlers[h].ev
                trace == handlers[h].trace
                streaming == NewLocation(ev) = "companion"
                               /\ ev.self_stream = "Some(true)"
            IN  /\ Issues(h, "move", IF streaming THEN 1 ELSE 0)
                /\ \A i \in DOMAIN trace :
                      trace[i].op = "move" => i = 2 /\ trace[1].op = "grant"
                /\ (streaming /\ handlers[h].pc = "done") =>
                      /\ Len(trace) = 2
                      /\ Count(trace, "revoke") = 0

(* A handler has returned after a failed grant followed by a failed move. *)
C4_Witness ==
    \E h \in Started :
        /\ handlers[h].pc = "done"
        /\ handlers[h].trace = <<Call("grant", FALSE), Call("move", FALSE)>>

(***************************************************************************)
(* Claims about icon_delay (computeDelay).                                 *)
(***************************************************************************)
MinHours == cfg.server_icons_delay_min_hours

MaxHours == cfg.server_icons_delay_max_hours

Computed == delay # DelayUnset

(* C5 as stated: for all minHours <= maxHours with maxHours > 0 the result
   is a duration between minHours*3600 and maxHours*3600 seconds, exactly
   minHours*3600 when the two are equal. *)
C5_AlwaysADurationInRange ==
    (Computed /\ MinHours <= MaxHours /\ MaxHours > 0) =>
        /\ delay.kind = "Some"
        /\ MinHours * SecsPerHour <= delay.secs
        /\ delay.secs <= MaxHours * SecsPerHour
        /\ MinHours = MaxHours => delay.secs = MinHours * SecsPerHour

(* C5, amended: for all minHours <= maxHours with maxHours > 0, every
   duration returned lies between minHours*3600 and maxHours*3600 seconds
   (exactly minHours*3600 when the two are equal); the result is "disabled"
   only when minHours = 0, and an error only when maxHours*3600 overflows;
   so a duration is returned whenever minHours >= 1 and nothing overflows. *)
C5_DurationInRangeUnlessZeroOrOverflow ==
    (Computed /\ MinHours <= MaxHours /\ MaxHours > 0) =>
        /\ delay.kind \in {"Some", "None", "ErrTooLarge"}
        /\ delay.kind = "Some" =>
              /\ MinHours * SecsPerHour <= delay.secs
              /\ delay.secs <= MaxHours * SecsPerHour
              /\ MinHours = MaxHours => delay.secs = MinHours * SecsPerHour
        /\ delay.kind = "None" => MinHours = 0
        /\ delay.kind = "ErrTooLarge" => MaxHours * SecsPerHour > U64Max
        /\ (MinHours >= 1 /\ MaxHours * SecsPerHour <= U64Max) =>
              delay.kind = "Some"

(* A duration strictly inside the range has been drawn. *)
C5_Witness ==
    /\ MinHours = 1 /\ MaxHours = 3
    /\ delay = DelaySome(2 * SecsPerHour)

(* C6: computeDelay(minHours, 0) is "disabled" for every minHours, and
   computeDelay with minHours > maxHours > 0 is the configuration error. *)
C6_DisabledAtZeroMaxErrorOnInvertedBounds ==
    Computed =>
        /\ MaxHours = 0 => delay = DelayNone
        /\ (MinHours > MaxHours /\ MaxHours > 0) =>
              delay = DelayErr("ErrMinGreaterThanMax")

(* computeDelay(5, 2) has failed. *)
C6_Witness ==
    /\ MinHours = 5 /\ MaxHours = 2
    /\ delay = DelayErr("ErrMinGreaterThanMax")

(***************************************************************************)
(* Claims about the ready handler and the randomizer loop.                 *)
(***************************************************************************)
NoOverflow == MaxHours * SecsPerHour <= U64Max

(* C7: an activation calls randomize_server_icon once before it computes
   any delay, whatever the delay configuration, and the loop is alive only
   after that call; with maxHours = 0 an activation makes exactly one
   attempt and its loop stops without a wait. *)
C7_FirstRotationBeforeLoop ==
    \A a \in Activations :
        LET act == acts[a]
        IN  /\ act.phase = "handler" =>
                  /\ act.delays = 0 /\ act.waits = 0
                  /\ act.attempts = IF act.pc = "select" THEN 0 ELSE 1
            /\ act.phase \in {"task", "stopped"} => act.attempts >= 1
            /\ act.delays >= 1 => act.attempts >= 1
            /\ MaxHours = 0 =>
                  /\ act.attempts <= 1 /\ act.waits = 0 /\ act.pc # "sleep"
                  /\ act.phase = "stopped" =>
                        act.attempts = 1 /\ act.why = "disabled"

(* With maxHours = 0 and minHours > 0 the first randomization has uploaded
   an icon and the loop has stopped. *)
C7_Witness ==
    \E a \in Activations :
        /\ MaxHours = 0 /\ MinHours > 0
        /\ acts[a].phase = "stopped"
        /\ acts[a].attempts = 1
        /\ acts[a].last = "Ok"
        /\ guildIcon # NoFile

C8_LoopState ==
    \A a \in Activations :
        LET act == acts[a]
        IN  /\ act.phase = "stopped" =>
                  /\ act.why \in {"disabled", "error"}
                  /\ act.why = "disabled" => MaxHours = 0 \/ MinHours = 0
                  /\ act.why = "error" => MinHours > MaxHours \/ ~NoOverflow
            /\ (1 <= MinHours /\ MinHours <= MaxHours /\ NoOverflow) =>
                  act.phase # "stopped"
            /\ act.phase = "task" =>
                  act.attempts = act.waits + IF act.pc = "select" THEN 0 ELSE 1

C8_LoopStep ==
    \A a \in Activations :
        /\ (acts[a].phase = "task" /\ acts'[a].phase # "task") =>
              /\ acts[a].pc = "delay"
              /\ acts'[a].phase = "stopped"
              /\ acts'[a].delays = acts[a].delays + 1
              /\ acts'[a].attempts = acts[a].attempts
        /\ (acts[a].pc = "sleep" /\ acts'[a] # acts[a]) =>
              acts'[a].pc = "select" /\ acts'[a].phase = "task"
        /\ acts[a].phase = "stopped" => acts'[a] = acts[a]

(* C8: the loop leaves the wait/apply cycle only in the step that computes
   the delay, with "disabled" (maxHours = 0 or a drawn 0) or an error
   (minHours > maxHours or overflow); no result of a randomization stops
   it, so with 1 <= minHours <= maxHours and no overflow it never stops and
   every wait is followed by a randomization; a stopped loop stays as it
   is. *)
C8_LoopStopsOnlyOnDelay == []C8_LoopState /\ [][C8_LoopStep]_vars

(* With 1 <= minHours <= maxHours the loop sleeps again after the
   randomization that followed its first wait has failed. *)
C8_Witness ==
    \E a \in Activations :
        /\ 1 <= MinHours /\ MinHours <= MaxHours /\ NoOverflow
        /\ acts[a].phase = "task" /\ acts[a].pc = "sleep"
        /\ acts[a].waits = 1 /\ acts[a].attempts = 2
        /\ acts[a].last = "Err"

(* C9: at most one randomizer loop is alive and at most one randomization
   is in progress, however many Ready events are delivered. *)
C9_AtMostOneLoop ==
    /\ Cardinality({a \in Activations : acts[a].phase = "task"}) <= 1
    /\ Cardinality({a \in Activations :
                      acts[a].pc \in {"attach", "edit"}}) <= 1

(* C10: file-system pool code (list, recycle, relocate) runs in the
   spawned task only, never in an event handler. *)
C10_PoolOnlyInTask == poolCallers \subseteq {"task"}

(***************************************************************************)
(* Vocabulary of the icon pools: the icons of a directory of a file system *)
(* and the two directories the configuration names.                        *)
(***************************************************************************)
Icons(f, directory) == {n \in f[directory].files : is_supported_icon(n)}

Available(f) == Icons(f, cfg.server_icons_unused)

Spent(f) == Icons(f, cfg.server_icons_used)

(* C11: while the used directory is unset no randomization uploads an icon
   or moves a file: the guild icon is never set and the file system stays
   as it was at the start. *)
C11_NoRotationWithoutUsedDir ==
    cfg.server_icons_used = "" => guildIcon = NoFile /\ fs = obs.fs0

(* The activation of the only Ready event of a session. *)
TheLoop == CHOOSE a \in FirstActivation : TRUE

(* The files of the two pool directories after `file` has gone from the
   unused into the used directory, everything else being as in `f`. *)
Relocated(f, file) ==
    /\ fs[cfg.server_icons_unused].files =
          f[cfg.server_icons_unused].files \ {file}
    /\ fs[cfg.server_icons_used].files =
          f[cfg.server_icons_used].files \cup {file}
    /\ \A p \in Paths \ {cfg.server_icons_unused, cfg.server_icons_used} :
          fs[p] = f[p]

(* C12: in one randomization with a selected icon nothing is uploaded and
   nothing enters the used directory before the platform call; a failed
   read or upload leaves the guild icon and both directories as they were,
   returns an error and leaves the loop alive; a successful upload sets the
   guild icon to the selected file, and after a successful move exactly the
   selected file has gone from the unused to the used directory. *)
C12_UploadThenRelocate ==
    /\ obs.step = "select" =>
          /\ guildIcon = obs.icon
          /\ Spent(fs) \subseteq Spent(obs.before)
    /\ obs.step = "attach" => guildIcon = obs.icon /\ fs = obs.before
    /\ obs.step \in {"attach", "edit"} /\ ~obs.ok =>
          /\ guildIcon = obs.icon
          /\ fs = obs.before
          /\ obs.selected \in Available(fs)
          /\ obs.res = "Err"
          /\ acts[TheLoop].phase = "task"
    /\ obs.step = "edit" /\ obs.ok =>
          /\ guildIcon = obs.selected
          /\ obs.selected \in Available(obs.before)
          /\ obs.res = "Ok" => Relocated(obs.before, obs.selected)
          /\ acts[TheLoop].phase = "task"

(* Two icons were available and none spent; one was uploaded and moved, so
   that one file is in each directory. *)
C12_Witness ==
    /\ obs.step = "edit" /\ obs.ok /\ obs.res = "Ok"
    /\ Cardinality(Available(obs.before)) = 2
    /\ Spent(obs.before) = {}
    /\ Cardinality(Available(fs)) = 1
    /\ Spent(fs) = {obs.selected}

(* Both pool directories are configured. *)
BothConfigured == cfg.server_icons_unused # "" /\ cfg.server_icons_used # ""

SameFiles(f, g) == \A p \in Paths : f[p].files = g[p].files

(* C13: with both directories configured, the selection calls
   recycle_used_icons exactly when the listing of the unused directory
   succeeded and found no icon.  When every call of the recycling succeeds
   (a failed rename with a successful copy and delete included) every icon
   of the used directory is then in the unused directory, the used
   directory holds no icon and the selected icon is one of them; with no
   icon in either directory nothing is selected or uploaded, no file moves
   and the result is Ok.  When the unused directory holds an icon the
   selection changes nothing on disk and selects one of its icons. *)
C13_RecycleIffAvailableEmpty ==
    obs.step = "select" /\ BothConfigured =>
        /\ obs.recycled <=>
              obs.listFault = "none" /\ Available(obs.before) = {}
        /\ obs.recycled /\ obs.recycleFault \in {"none", "rename"} =>
              /\ Spent(obs.before) \subseteq Available(fs)
              /\ Spent(fs) = {}
              /\ guildIcon = obs.icon
              /\ IF Spent(obs.before) = {}
                 THEN /\ obs.selected = NoFile
                      /\ obs.res = "Ok"
                      /\ SameFiles(fs, obs.before)
                 ELSE obs.selected \in Spent(obs.before)
        /\ obs.listFault = "none" /\ Available(obs.before) # {} =>
              /\ fs = obs.before
              /\ obs.selected \in Available(obs.before)

(* The unused directory held no icon and the used directory one; it was
   moved back and selected. *)
C13_Witness ==
    /\ obs.step = "select" /\ BothConfigured /\ obs.recycled
    /\ cfg.server_icons_unused # cfg.server_icons_used
    /\ Available(obs.before) = {}
    /\ Cardinality(Spent(obs.before)) = 1
    /\ Spent(obs.before) = {obs.selected}
    /\ Available(fs) = {obs.selected}
    /\ Spent(fs) = {}

(* The two pools are different directories that held no icon of the same
   name at the start. *)
StartedDisjoint ==
    /\ BothConfigured
    /\ cfg.server_icons_unused # cfg.server_icons_used
    /\ Icons(obs.fs0, cfg.server_icons_unused)
          \cap Icons(obs.fs0, cfg.server_icons_used) = {}

(* C14: starting from pools with disjoint names, no icon is ever in both
   the unused and the used directory, whatever system call of a move
   fails. *)
C14_InAtMostOnePool ==
    StartedDisjoint => Available(fs) \cap Spent(fs) = {}

(* The faults of the listing and of the recycling that are I/O errors of
   kind PermissionDenied, and those that are other I/O errors. *)
DeniedFaults ==
    { "metadata_denied", "create_denied", "read_dir_denied", "entry_denied",
      "mkdir_denied", "remove_dest_denied" }

OtherFaults ==
    { "metadata_error", "create_error", "read_dir_error", "entry_error",
      "mkdir_error", "remove_dest_error", "rename_copy",
      "rename_remove_source" }

(* The fault that took effect in the selection last observed. *)
SelectionFault ==
    IF obs.listFault # "none" THEN obs.listFault ELSE obs.recycleFault

(* C15: a permission-denied failure of any system call of the listing of
   the unused directory or of the listing or recycling of the used directory
   makes the randomization return Ok with nothing uploaded and no file
   moved; any other failure makes it return an error. *)
C15_DeniedIsWarning ==
    obs.step = "select" =>
        /\ SelectionFault \in DeniedFaults =>
              /\ obs.res = "Ok"
              /\ obs.selected = NoFile
              /\ guildIcon = obs.icon
              /\ SameFiles(fs, obs.before)
        /\ SelectionFault \in OtherFaults => obs.res = "Err"

(***************************************************************************)
(* Vocabulary of the command handlers: the calls of a trace.               *)
(***************************************************************************)
CallsOf(trace, ops) == {i \in DOMAIN trace : trace[i].op \in ops}

RoleOps == {"add_role", "remove_role"}

(* The handler looked the member up and the lookup succeeded. *)
LookedUp(c) ==
    \E i \in DOMAIN cmd[c].trace :
        cmd[c].trace[i].op = "member" /\ cmd[c].trace[i].ok

(* C16: an `alerts` command of the configured guild with a configured role
   and a successful member lookup issues exactly one role call, remove_role
   if the member held the role at the lookup and add_role otherwise, and
   then creates exactly one ephemeral response whose message tells the
   outcome of the call; a command of another guild, without a guild, with
   the role unconfigured or of another name issues no member lookup and no
   role call and creates exactly one ephemeral response with the message of
   its branch; the handler returns an error only when the member lookup or
   the creation of the response failed, never for a failed role call. *)
C16_AlertsCommand ==
    \A c \in Invocations :
        LET trace == cmd[c].trace
            roles == CallsOf(trace, RoleOps)
            responses == CallsOf(trace, {"create_response"})
            early == EarlyMessage(cmd[c].command)
        IN  cmd[c].pc # "idle" =>
            /\ Cardinality(roles) <= 1
            /\ Cardinality(responses) <= 1
            /\ \A i \in responses : trace[i].ephemeral /\ i = Len(trace)
            /\ early # "" =>
                  /\ roles = {} /\ CallsOf(trace, {"member"}) = {}
                  /\ cmd[c].pc = "done" =>
                        /\ Cardinality(responses) = 1
                        /\ \A i \in responses : trace[i].content = early
            /\ early = "" /\ LookedUp(c) /\ cmd[c].pc = "done" =>
                  /\ Cardinality(roles) = 1
                  /\ Cardinality(responses) = 1
                  /\ \A i \in roles :
                        /\ trace[i].op = IF cmd[c].has_role THEN "remove_role"
                                         ELSE "add_role"
                        /\ \A j \in responses :
                              /\ i < j
                              /\ trace[j].content =
                                    RoleMessage(cmd[c].has_role, trace[i].ok)
            /\ ~LookedUp(c) => roles = {}
            /\ cmd[c].pc = "done" =>
                  (cmd[c].result = "Err" <=> ~trace[Len(trace)].ok)
            /\ cmd[c].result = "Err" =>
                  trace[Len(trace)].op \in {"member", "create_response"}

(* The member held the role, remove_role failed, and the handler answered
   with the failure message and returned Ok. *)
C16_Witness ==
    \E c \in Invocations :
        /\ cmd[c].pc = "done" /\ cmd[c].result = "Ok" /\ cmd[c].has_role
        /\ Len(cmd[c].trace) = 3
        /\ cmd[c].trace[2] = Call("remove_role", FALSE)
        /\ cmd[c].trace[3] =
              Response("Failed to remove the alerts role. Please contact an administrator.",
                       TRUE)

(* C17: once the overlapping handlers of a member's consecutive events have
   all returned, the override exists only if the location last reported is
   the companion or the restricted channel, and it exists if that location
   is the companion channel. *)
C17_OverlapEndsConsistent ==
    (\A h \in DOMAIN handlers : handlers[h].pc = "done") =>
        LET last == NewLocation(handlers[NumOverlap].ev)
        IN  /\ overrides => last \in Tracked
            /\ last = "companion" => overrides

(* The handler of the event handled last, if any. *)
Latest ==
    {h \in DOMAIN handlers :
        /\ handlers[h].pc = "done"
        /\ \A g \in DOMAIN handlers : g > h => handlers[g].pc = "idle"}

(* C18: with events handled one at a time, after every handled event the
   override exists if the member is in the companion channel and does not
   exist if the member is in neither tracked channel; no event issues both
   a grant and a revoke. *)
C18_SequentialConsistent ==
    /\ \A h \in Latest :
          LET at == NewLocation(handlers[h].ev)
          IN  /\ at = "companion" => overrides
              /\ at \notin Tracked => ~overrides
    /\ \A h \in DOMAIN handlers :
          Count(handlers[h].trace, "grant") = 0
              \/ Count(handlers[h].trace, "revoke") = 0

(* The member entered the companion channel, went on to the restricted
   channel and then left: the third event revoked the override. *)
C18_Witness ==
    /\ handlers[1].pc = "done" /\ NewLocation(handlers[1].ev) = "companion"
    /\ Count(handlers[1].trace, "grant") = 1
    /\ handlers[2].pc = "done" /\ NewLocation(handlers[2].ev) = "restricted"
    /\ handlers[3].pc = "done" /\ NewLocation(handlers[3].ev) = "none"
    /\ Count(handlers[3].trace, "revoke") = 1
    /\ ~overrides

(* The icons in the two directories at the start. *)
Candidates ==
    Icons(obs.fs0, cfg.server_icons_unused)
        \cup Icons(obs.fs0, cfg.server_icons_used)

(* The icon a randomization is about to upload has not been uploaded since
   recycle_used_icons was last called, and the icons uploaded since then
   are in the used directory. *)
C19_OncePerCycle ==
    /\ \A a \in Activations :
          acts[a].pc \in {"attach", "edit"} =>
              acts[a].selected \notin obs.since
    /\ obs.since \subseteq Spent(fs)
    /\ obs.since \cap Available(fs) = {}

(* C19: in a single loop whose uploads and moves all succeed, no icon is
   uploaded a second time before the unused directory has been emptied and
   recycled, and every icon of the two directories is eventually
   uploaded. *)
C19_EachOnceThenAll == []C19_OncePerCycle /\ <>(Candidates \subseteq obs.ever)

(* Every icon has been uploaded, and after a recycling one of them is
   about to be uploaded for the second time. *)
C19_Witness ==
    /\ Cardinality(Candidates) >= 2
    /\ Candidates \subseteq obs.ever
    /\ obs.step = "select" /\ obs.recycled
    /\ obs.selected \in obs.ever
    /\ obs.since = {}

(* C20: no move destroys the file it moves, whatever the two directories
   are and whatever the target holds: every icon that was in the unused or
   the used directory at the start is in one of them in every later
   state. *)
C20_NoCandidateLost == Candidates \subseteq Available(fs) \cup Spent(fs)

(* The same with two different directories. *)
C20_DistinctDirs ==
    cfg.server_icons_unused # cfg.server_icons_used => C20_NoCandidateLost

====
